---- MODULE Spec2Model ----
(***************************************************************************)
(* Model of src/server.py: the chat relay's connection handler             *)
(* (handle_connection), one asyncio task per connection, run by a          *)
(* single-threaded event loop whose ready queue is first-in first-out.     *)
(*                                                                         *)
(* A task runs from one suspension point (an await that really waits) to   *)
(* the next without interruption.  The suspension points of                *)
(* handle_connection are: the send of the history payload (line 69), the   *)
(* wait for the next inbound payload (line 76) and the wait for the        *)
(* gathered broadcast sends (line 116).  asyncio.gather wraps every send   *)
(* coroutine in a task of its own; these tasks are appended to the ready   *)
(* queue when gather is called and start only after the calling handler    *)
(* has suspended.                                                          *)
(***************************************************************************)
EXTENDS Integers, Sequences, FiniteSets, TLC

\* ---------------------------------------------------------------- bounds
NumHandles == 2        \* connections accepted during a run
MaxArrivals == 3       \* inbound payloads received during a run
MaxInbox == 2          \* payloads queued on one connection, not yet read

\* ------------------------------------------------------ program constants
HistoryCap == 100      \* server.py line 97: if len(chat_history) > 100

Handles == 1..NumHandles

VARIABLES
  connected_clients,  \* server.py line 37: set of registered websockets
  chat_history,       \* server.py line 38: list of message objects
  conn,               \* per handle: transport state "none" | "open" | "closed"
  inbox,              \* per handle: inbound payloads received, not yet read
  pc,                 \* per handle: where its handle_connection task stands
  ready,              \* the event loop's FIFO queue of runnable tasks
  sends,              \* every client.send(message_json) task gather created
  wire,               \* per handle: payloads written to its connection
  now,                \* last reading of datetime.datetime.now()
  keyError,           \* whether connected_clients.remove has raised
  arrivals,           \* number of inbound payloads received so far
  processed,          \* number of messages accepted so far
  phase,              \* the process: "starting" | "serving" | "stopped" | "exited"
  exitCode,           \* the exit status of the process, NoExit while it runs
  shut,               \* where the shutdown() task stands
  closing             \* per handle: where the client.close() of line 162 stands

\* The process and its shutdown.
life == <<phase, exitCode, shut, closing>>

vars == <<connected_clients, chat_history, conn, inbox, pc, ready, sends,
          wire, now, keyError, arrivals, processed, phase, exitCode, shut,
          closing>>

\* No exit status yet.
NoExit == 0 - 1

\* ------------------------------------------------------- inbound payloads
\* A raw inbound payload: text that is not JSON, JSON that is not an
\* object, or a JSON object with some of the keys text, sender, timestamp.
NotJson == [kind |-> "garbage", data |-> [raw |-> "x"]]
NotObject == [kind |-> "number", data |-> [raw |-> "5"]]
NoSender == [kind |-> "object", data |-> [text |-> "hi"]]
NoText == [kind |-> "object", data |-> [sender |-> "A"]]
Plain == [kind |-> "object", data |-> [text |-> "hi", sender |-> "A"]]

Payloads == {NotJson, NotObject, NoSender, NoText, Plain}

\* Accepted payloads that differ in text and sender, or that carry a
\* timestamp or another field of the client's own.
Other == [kind |-> "object", data |-> [text |-> "yo", sender |-> "B"]]
Stamped ==
  [kind |-> "object", data |-> [text |-> "hi", sender |-> "C", timestamp |-> 0]]
Tagged ==
  [kind |-> "object", data |-> [text |-> "hi", sender |-> "B", admin |-> 1]]

StampPayloads == {Plain, Other, Stamped, Tagged}

\* json.loads(message), line 79: raises JSONDecodeError on text that is
\* not JSON, otherwise yields the decoded value.
JsonLoads(p) ==
  IF p.kind = "garbage"
    THEN [raised |-> "JSONDecodeError", data |-> p.data, isdict |-> FALSE]
    ELSE [raised |-> "none", data |-> p.data, isdict |-> p.kind = "object"]

\* Lines 79-81 and 118-123: what becomes of one inbound payload.
\*   "accept"  - an object with text and sender (lines 82-117)
\*   "warn"    - an object lacking one of them (line 119)
\*   "error"   - JSONDecodeError (line 121), or the TypeError that
\*               `'text' in data` raises on a value that is no container
\*               (line 123)
Accepts(p) ==
  LET r == JsonLoads(p) IN
    /\ r.raised = "none"
    /\ r.isdict
    /\ "text" \in DOMAIN r.data
    /\ "sender" \in DOMAIN r.data

\* A message object that keeps the timestamp the client supplied.
MessageObjTrusting(p, t, n) ==
  [id |-> n, text |-> p.data.text, sender |-> p.data.sender,
   timestamp |-> IF "timestamp" \in DOMAIN p.data THEN p.data.timestamp ELSE t]

\* Lines 83-88: the message object built from an accepted payload.  The
\* field id is auxiliary: it numbers the accepted messages so that two
\* occurrences with equal text, sender and timestamp stay apart.
MessageObj(p, t, n) ==
  [id |-> n, text |-> p.data.text, sender |-> p.data.sender, timestamp |-> t]

\* A history that takes new messages at its front.
AppendTrimFront(h, m) ==
  LET a == <<m>> \o h IN
    IF Len(a) > HistoryCap THEN SubSeq(a, 1, HistoryCap) ELSE a

\* A full history that refuses the new message.
AppendTrimKeepsOld(h, m) ==
  IF Len(h) >= HistoryCap THEN h ELSE Append(h, m)

\* An append without the trim.
AppendOnly(h, m) == Append(h, m)

\* Lines 93-99: append, then drop the oldest entry when over capacity.
AppendTrim(h, m) ==
  LET a == Append(h, m) IN
    IF Len(a) > HistoryCap THEN Tail(a) ELSE a

\* A join that sends the history whatever it holds.
HasHistoryAlways(h) == TRUE

\* Line 63: `if chat_history:`.
HasHistory(h) == h # <<>>

\* A history payload that carries the newest entry only.
HistoryPayloadLast(h) == [type |-> "history", messages |-> <<h[Len(h)]>>]

\* A live payload stamped anew when it is built.
LivePayloadRestamped(m) ==
  [type |-> "message", message |-> [m EXCEPT !.timestamp = @ + 1]]

\* Lines 65-68 and 102-105: the two payloads the server sends.
HistoryPayload(h) == [type |-> "history", messages |-> h]
LivePayload(m) == [type |-> "message", message |-> m]

\* A removal that leaves the set as it is.
SetRemoveKeeps(S, x) == [set |-> S, raised |-> FALSE]

\* Line 128: set.remove(x) removes x and raises KeyError when x is absent.
SetRemove(S, x) == [set |-> S \ {x}, raised |-> x \notin S]

\* ------------------------------------------------------------- event loop
HandlerTask(h) == <<"handler", h>>
SendTask(i) == <<"send", i>>

InQueue(q, t) == \E i \in DOMAIN q : q[i] = t

\* call_soon: a task is queued once however many events wake it.
Wake(q, t) == IF InQueue(q, t) THEN q ELSE Append(q, t)

\* A handler between two suspension points: nothing else runs meanwhile.
Running == \E h \in Handles : pc[h] = "loop"

\* The id of the message whose broadcast handler h last gathered.
RECURSIVE LastOwned(_, _, _)
LastOwned(ss, h, i) ==
  IF i = 0 THEN 0
  ELSE IF ss[i].owner = h THEN ss[i].msg.id
  ELSE LastOwned(ss, h, i - 1)

CurMsg(ss, h) == LastOwned(ss, h, Len(ss))

\* asyncio.gather without return_exceptions (line 116): the awaiting
\* handler is woken by the first child that raises, or by the last child
\* when all have returned.  Children that are still pending keep running.
GatherWakes(ss, i) ==
  LET o == ss[i].owner
      m == ss[i].msg.id
  IN /\ pc[o] = "gather"
     /\ CurMsg(ss, o) = m
     /\ \/ ss[i].st = "err"
        \/ \A j \in DOMAIN ss : ss[j].msg.id = m => ss[j].st = "ok"

Notify(q, ss, i) ==
  IF GatherWakes(ss, i) THEN Wake(q, HandlerTask(ss[i].owner)) ELSE q

RECURSIVE NotifyAll(_, _, _, _)
NotifyAll(q, ss, changed, i) ==
  IF i > Len(ss) THEN q
  ELSE NotifyAll(IF i \in changed THEN Notify(q, ss, i) ELSE q,
                 ss, changed, i + 1)

\* loop.create_task / call_soon: new tasks join the queue at its tail, in
\* the order of their creation.
Spawn(q, ts) == q \o ts

\* A join that does not add the handle.
RegisterNot(S, h) == S

\* Line 58: connected_clients.add(websocket).
Register(S, h) == S \cup {h}

\* A broadcast that leaves out the sender.
RecipientsButSender(S, h) == S \ {h}

\* A broadcast that skips the clients whose transport is lost.
RecipientsConnected(S, h) == {c \in S : conn[c] = "open"}

\* Line 109: the clients a broadcast iterates over.
Recipients(S, h) == S

\* Lines 108-111: one send coroutine per client, in iteration order.
BroadcastTasks(m, ord, h) ==
  [k \in 1..Len(ord) |-> [msg |-> m, to |-> ord[k], owner |-> h, st |-> "new"]]

\* Line 83: datetime.datetime.now(); the clock has advanced since the
\* previous reading.
ClockRead(t) == t + 1

\* A failing send that takes the unfinished sends of its broadcast with it.
RaiseCancels(ss, i) ==
  [k \in DOMAIN ss |->
     IF k = i \/ (ss[k].msg.id = ss[i].msg.id /\ ss[k].st \in {"new", "drain"})
       THEN [ss[k] EXCEPT !.st = "err"] ELSE ss[k]]

\* A send task ends with ConnectionClosed.  gather (line 116, without
\* return_exceptions) hands the exception to the handler and leaves the
\* other sends of the broadcast running.
Raise(ss, i) == [ss EXCEPT ![i].st = "err"]

RECURSIVE RaiseAll(_, _, _)
RaiseAll(ss, failing, i) ==
  IF i > Len(ss) THEN ss
  ELSE RaiseAll(IF i \in failing THEN Raise(ss, i) ELSE ss, failing, i + 1)

\* A rejected payload that ends the handler.
OnRejectedEnds(S, h) == [clients |-> S \ {h}, pc |-> "done"]

\* Lines 118-123: after a payload that is not accepted the handler stays
\* registered and goes on with the loop of line 76.
OnRejected(S, h) == [clients |-> S, pc |-> "loop"]

\* A write to connection h must wait when an earlier one is still waiting
\* for the transport's buffer to drain.
Blocked(h) ==
  \/ pc[h] = "hist"
  \/ \E i \in DOMAIN sends : sends[i].to = h /\ sends[i].st = "drain"

\* The sends that wait for the buffer of connection h to drain.
Waiting(h) == {i \in DOMAIN sends : sends[i].to = h /\ sends[i].st = "drain"}

\* A write to an open connection h returns at once ("ok") or waits for
\* the buffer to drain ("drain"); behind a waiting write it waits too.
WriteOutcomes(h) ==
  IF Blocked(h) THEN {"drain"} ELSE {"ok", "drain"}

\* All orders in which a for loop may visit the members of a set
\* (line 109; the iteration order of a Python set is unspecified).
Orders(S) ==
  {f \in [1..Cardinality(S) -> S] :
     \A i, j \in 1..Cardinality(S) : i # j => f[i] # f[j]}

\* The module state of lines 37-38 with the registry holding S, no
\* connection accepted yet.
Idle(S) ==
  /\ connected_clients = S
  /\ chat_history = <<>>
  /\ conn = [h \in Handles |-> "none"]
  /\ inbox = [h \in Handles |-> <<>>]
  /\ pc = [h \in Handles |-> "none"]
  /\ ready = <<>>
  /\ sends = <<>>
  /\ wire = [h \in Handles |-> <<>>]
  /\ now = 0
  /\ keyError = FALSE
  /\ arrivals = 0
  /\ processed = 0

\* No signal has been received.
Unsignalled ==
  /\ exitCode = NoExit
  /\ shut = "none"
  /\ closing = [h \in Handles |-> "none"]

\* The server is up (line 199) and nothing has happened yet.
Boot(S) == Idle(S) /\ phase = "serving" /\ Unsignalled

Init == Boot({})

\* ------------------------------------------------------------ environment
\* The library accepts a connection and creates its handle_connection task.
\* Handles are numbered in the order of acceptance.
Accept(h) ==
  /\ ~Running
  /\ conn[h] = "none"
  /\ \A g \in Handles : g < h => conn[g] # "none"
  /\ conn' = [conn EXCEPT ![h] = "open"]
  /\ pc' = [pc EXCEPT ![h] = "start"]
  /\ ready' = Spawn(ready, <<HandlerTask(h)>>)
  /\ UNCHANGED <<connected_clients, chat_history, inbox, sends, wire, now,
                 keyError, arrivals, processed>>
  /\ UNCHANGED life

\* A payload arrives on an open connection; a handler waiting at line 76
\* is woken.  At most `limit` payloads arrive in a run and at most `room`
\* wait on one connection.
Receive(h, p, limit, room) ==
  /\ ~Running
  /\ conn[h] = "open"
  /\ arrivals < limit
  /\ Len(inbox[h]) < room
  /\ inbox' = [inbox EXCEPT ![h] = Append(@, p)]
  /\ arrivals' = arrivals + 1
  /\ ready' = IF pc[h] = "recv" THEN Wake(ready, HandlerTask(h)) ELSE ready
  /\ UNCHANGED <<connected_clients, chat_history, conn, pc, sends, wire, now,
                 keyError, processed>>
  /\ UNCHANGED life

Arrive(h, p) == Receive(h, p, MaxArrivals, MaxInbox)

\* The transport of h is lost.  Every write waiting on it raises
\* ConnectionClosed; a handler waiting for its next payload is woken.
Lost(h) ==
  /\ ~Running
  /\ conn[h] = "open"
  /\ conn' = [conn EXCEPT ![h] = "closed"]
  /\ sends' = RaiseAll(sends, Waiting(h), 1)
  /\ pc' = [pc EXCEPT ![h] = IF @ = "hist" THEN "histErr" ELSE @]
  /\ UNCHANGED <<connected_clients, chat_history, inbox, wire, now, keyError,
                 arrivals, processed>>

\* The ready queue once the tasks that waited on connection h have been
\* woken by its loss.
LostWakes(h) ==
  NotifyAll(IF pc[h] \in {"recv", "hist"}
              THEN Wake(ready, HandlerTask(h)) ELSE ready,
            sends', Waiting(h), 1)

\* The client goes away, or its network does.
Disconnect(h) == Lost(h) /\ ready' = LostWakes(h) /\ UNCHANGED life

\* The buffer of connection h drains: every write waiting on it returns,
\* oldest first (the history send of line 69 is the oldest of all).
Drain(h) ==
  /\ ~Running
  /\ conn[h] = "open"
  /\ Blocked(h)
  /\ sends' = [i \in DOMAIN sends |->
                 IF i \in Waiting(h)
                   THEN [sends[i] EXCEPT !.st = "ok"] ELSE sends[i]]
  /\ pc' = [pc EXCEPT ![h] = IF @ = "hist" THEN "histOk" ELSE @]
  /\ ready' = NotifyAll(IF pc[h] = "hist"
                          THEN Wake(ready, HandlerTask(h)) ELSE ready,
                        sends', Waiting(h), 1)
  /\ UNCHANGED <<connected_clients, chat_history, conn, inbox, wire, now,
                 keyError, arrivals, processed>>
  /\ UNCHANGED life

\* ------------------------------------------------------------- send tasks
\* First step of a task wrapping client.send(message_json) (line 111):
\* on a closed connection it raises, otherwise it writes the frame and
\* returns, or waits for the buffer to drain (`outs`: the outcomes of the
\* write that the environment allows).
SendRun(i, outs) ==
  /\ ~Running
  /\ ready # <<>> /\ Head(ready) = SendTask(i)
  /\ IF conn[sends[i].to] # "open"
       THEN /\ sends' = Raise(sends, i)
            /\ wire' = wire
       ELSE /\ wire' = [wire EXCEPT ![sends[i].to] =
                          Append(@, LivePayload(sends[i].msg))]
            /\ \E st \in outs : sends' = [sends EXCEPT ![i].st = st]
  /\ ready' = Notify(Tail(ready), sends', i)
  /\ UNCHANGED <<connected_clients, chat_history, conn, inbox, pc, now,
                 keyError, arrivals, processed>>
  /\ UNCHANGED life

SendStart(i) == SendRun(i, WriteOutcomes(sends[i].to))

\* ------------------------------------------------------ handle_connection
\* Lines 54-72: register, then send the history when there is one
\* (`outs`: the outcomes of that write that the environment allows).
Join(h, outs) ==
  /\ ~Running
  /\ ready # <<>> /\ Head(ready) = HandlerTask(h)
  /\ pc[h] = "start"
  /\ ready' = Tail(ready)
  /\ IF ~HasHistory(chat_history)
       THEN /\ connected_clients' = Register(connected_clients, h)
            /\ pc' = [pc EXCEPT ![h] = "loop"]
            /\ wire' = wire
            /\ keyError' = keyError
       ELSE IF conn[h] = "open"
         THEN /\ connected_clients' = Register(connected_clients, h)
              /\ wire' = [wire EXCEPT ![h] =
                            Append(@, HistoryPayload(chat_history))]
              /\ \E st \in outs :
                   pc' = [pc EXCEPT ![h] =
                            IF st = "drain" THEN "hist" ELSE "loop"]
              /\ keyError' = keyError
         ELSE \* websocket.send raises: lines 124-128
              /\ connected_clients' =
                   SetRemove(Register(connected_clients, h), h).set
              /\ keyError' =
                   (keyError \/ SetRemove(Register(connected_clients, h), h).raised)
              /\ pc' = [pc EXCEPT ![h] = "done"]
              /\ wire' = wire
  /\ UNCHANGED <<chat_history, conn, inbox, sends, now, arrivals, processed>>
  /\ UNCHANGED life

Start(h) == Join(h, WriteOutcomes(h))

\* The history send of line 69 raised while it waited: line 124 catches
\* the exception and the finally clause of lines 126-129 runs.
HistoryFailed(h) ==
  /\ ~Running
  /\ ready # <<>> /\ Head(ready) = HandlerTask(h)
  /\ pc[h] = "histErr"
  /\ ready' = Tail(ready)
  /\ connected_clients' = SetRemove(connected_clients, h).set
  /\ keyError' = (keyError \/ SetRemove(connected_clients, h).raised)
  /\ pc' = [pc EXCEPT ![h] = "done"]
  /\ UNCHANGED <<chat_history, conn, inbox, sends, wire, now, arrivals,
                 processed>>
  /\ UNCHANGED life

\* A handler that goes on only while no other handler waits for a
\* broadcast.
AtLoopExclusive(h) ==
  /\ \A g \in Handles : g # h => pc[g] # "gather"
  /\ \/ pc[h] = "loop"
     \/ /\ ~Running
        /\ ready # <<>> /\ Head(ready) = HandlerTask(h)
        /\ pc[h] \in {"recv", "gather", "histOk"}

\* Handler h stands at the top of the loop of line 76: it is running
\* there, or it is the next task of the queue and resumes there after the
\* wait of line 69, 76 or 116 (an exception that gather delivers is caught
\* on line 122 and the loop goes on).
AtLoop(h) ==
  \/ pc[h] = "loop"
  \/ /\ ~Running
     /\ ready # <<>> /\ Head(ready) = HandlerTask(h)
     /\ pc[h] \in {"recv", "gather", "histOk"}

\* The ready queue once handler h has been taken from it to run.
Dequeued(h) == IF pc[h] = "loop" THEN ready ELSE Tail(ready)

\* Lines 77-81 and 118-123: a payload that is not accepted is logged and
\* the loop goes on.
Discard(h) ==
  /\ AtLoop(h)
  /\ inbox[h] # <<>>
  /\ ~Accepts(Head(inbox[h]))
  /\ inbox' = [inbox EXCEPT ![h] = Tail(@)]
  /\ connected_clients' = OnRejected(connected_clients, h).clients
  /\ pc' = [pc EXCEPT ![h] = OnRejected(connected_clients, h).pc]
  /\ ready' = Dequeued(h)
  /\ UNCHANGED <<chat_history, conn, sends, wire, now, keyError, arrivals,
                 processed>>
  /\ UNCHANGED life

\* Lines 82-117: stamp, append, trim, create one send per registered
\* client, gather them and wait (`orders`: the iteration orders of
\* connected_clients that are considered).
Process(h, orders) ==
  /\ AtLoop(h)
  /\ inbox[h] # <<>>
  /\ Accepts(Head(inbox[h]))
  /\ inbox' = [inbox EXCEPT ![h] = Tail(@)]
  /\ processed' = processed + 1
  /\ now' = ClockRead(now)
  /\ LET m == MessageObj(Head(inbox[h]), now', processed + 1) IN
       /\ chat_history' = AppendTrim(chat_history, m)
       /\ \E ord \in orders :
            /\ sends' = sends \o BroadcastTasks(m, ord, h)
            /\ ready' = Spawn(Dequeued(h),
                          [k \in 1..Len(ord) |-> SendTask(Len(sends) + k)])
            /\ pc' = [pc EXCEPT ![h] =
                        IF Len(ord) > 0 THEN "gather" ELSE "loop"]
  /\ UNCHANGED <<connected_clients, conn, wire, keyError, arrivals>>
  /\ UNCHANGED life

Broadcast(h) == Process(h, Orders(Recipients(connected_clients, h)))

\* Line 76 with nothing to read on an open connection: wait.
Wait(h) ==
  /\ AtLoop(h)
  /\ inbox[h] = <<>>
  /\ conn[h] = "open"
  /\ pc' = [pc EXCEPT ![h] = "recv"]
  /\ ready' = Dequeued(h)
  /\ UNCHANGED <<connected_clients, chat_history, conn, inbox, sends, wire,
                 now, keyError, arrivals, processed>>
  /\ UNCHANGED life

\* A handler that also ends when the broadcast it gathered has raised.
FinishOnFailedSend(h) ==
  /\ AtLoop(h)
  /\ inbox[h] = <<>>
  /\ \/ conn[h] = "closed"
     \/ /\ pc[h] = "gather"
        /\ \E i \in DOMAIN sends :
             sends[i].msg.id = CurMsg(sends, h) /\ sends[i].st = "err"
  /\ connected_clients' = SetRemove(connected_clients, h).set
  /\ keyError' = (keyError \/ SetRemove(connected_clients, h).raised)
  /\ pc' = [pc EXCEPT ![h] = "done"]
  /\ ready' = Dequeued(h)
  /\ UNCHANGED <<chat_history, conn, inbox, sends, wire, now, arrivals,
                 processed>>
  /\ UNCHANGED life

\* Line 76 on a lost connection with nothing left to read: the loop ends
\* (or raises into line 124) and the finally clause of lines 126-129 runs.
Finish(h) ==
  /\ AtLoop(h)
  /\ inbox[h] = <<>>
  /\ conn[h] = "closed"
  /\ connected_clients' = SetRemove(connected_clients, h).set
  /\ keyError' = (keyError \/ SetRemove(connected_clients, h).raised)
  /\ pc' = [pc EXCEPT ![h] = "done"]
  /\ ready' = Dequeued(h)
  /\ UNCHANGED <<chat_history, conn, inbox, sends, wire, now, arrivals,
                 processed>>
  /\ UNCHANGED life

Next ==
  \/ \E h \in Handles : Accept(h)
  \/ \E h \in Handles, p \in Payloads : Arrive(h, p)
  \/ \E h \in Handles : Disconnect(h)
  \/ \E h \in Handles : Drain(h)
  \/ \E i \in DOMAIN sends : SendStart(i)
  \/ \E h \in Handles : Start(h)
  \/ \E h \in Handles : HistoryFailed(h)
  \/ \E h \in Handles : Discard(h)
  \/ \E h \in Handles : Broadcast(h)
  \/ \E h \in Handles : Wait(h)
  \/ \E h \in Handles : Finish(h)

Spec == Init /\ [][Next]_vars

\* The steps the event loop itself takes: it runs the task at the head of
\* the ready queue, and the running handler goes on to its next wait.
\* Arrivals, disconnects and the draining of a peer's buffer are in the
\* hands of the clients.
TaskStep ==
  \/ \E i \in DOMAIN sends : SendStart(i)
  \/ \E h \in Handles : Start(h)
  \/ \E h \in Handles : HistoryFailed(h)
  \/ \E h \in Handles : Discard(h)
  \/ \E h \in Handles : Broadcast(h)
  \/ \E h \in Handles : Wait(h)
  \/ \E h \in Handles : Finish(h)

FairSpec == Spec /\ WF_vars(TaskStep)

\* ------------------------------------------------ the process, shutdown
\* asyncio.run(main()), line 212: main never returns by itself
\* (server.wait_closed() of line 204 waits for a close of the server that
\* no line issues); when loop.stop() ends the loop before main has
\* completed, run_until_complete raises RuntimeError.
AsyncioRun(completed) == IF completed THEN "returned" ELSE "Exception"

\* Lines 209-218: the exit status for each way asyncio.run can end.
ExitStatus(outcome) ==
  CASE outcome = "returned" -> 0
    [] outcome = "KeyboardInterrupt" -> 0
    [] outcome = "Exception" -> 1

ShutdownTask == <<"shutdown", 0>>
CloseTask(h) == <<"close", h>>

\* The process is up and its event loop runs.
Serving == phase = "serving"

\* Lines 186-199: the signal handlers are installed and the server starts
\* to listen.
ServeUp ==
  /\ phase = "starting"
  /\ phase' = "serving"
  /\ UNCHANGED <<connected_clients, chat_history, conn, inbox, pc, ready,
                 sends, wire, now, keyError, arrivals, processed, exitCode,
                 shut, closing>>

\* Line 193 raises (the port is taken): main re-raises on line 207,
\* asyncio.run raises and line 218 exits.
ServeFails ==
  /\ phase = "starting"
  /\ phase' = "exited"
  /\ exitCode' = ExitStatus("Exception")
  /\ UNCHANGED <<connected_clients, chat_history, conn, inbox, pc, ready,
                 sends, wire, now, keyError, arrivals, processed, shut,
                 closing>>

\* SIGINT or SIGTERM, lines 139-143: the handler creates the shutdown task.
Signal ==
  /\ Serving
  /\ ~Running
  /\ shut = "none"
  /\ shut' = "queued"
  /\ ready' = Spawn(ready, <<ShutdownTask>>)
  /\ UNCHANGED <<connected_clients, chat_history, conn, inbox, pc, sends,
                 wire, now, keyError, arrivals, processed, phase, exitCode,
                 closing>>

\* asyncio.gather(..., return_exceptions=True), line 163: shutdown is woken
\* when every close has returned or raised.
ClosesPending(cl) == {h \in Handles : cl[h] \in {"new", "sent", "ended"}}

WakeShutdown(q, cl) ==
  IF shut = "gather" /\ ClosesPending(cl) = {}
    THEN Wake(q, ShutdownTask) ELSE q

\* Lines 157-167, first run of the shutdown task: with no client
\* registered it stops the loop at once; otherwise it creates one close
\* per handle that is registered now and waits for all of them.
ShutdownRun ==
  /\ Serving
  /\ ~Running
  /\ ready # <<>> /\ Head(ready) = ShutdownTask
  /\ shut = "queued"
  /\ IF connected_clients = {}
       THEN /\ shut' = "done"
            /\ phase' = "stopped"
            /\ ready' = Tail(ready)
            /\ closing' = closing
       ELSE /\ shut' = "gather"
            /\ phase' = phase
            /\ closing' = [h \in Handles |->
                             IF h \in connected_clients THEN "new"
                             ELSE closing[h]]
            /\ \E ord \in Orders(connected_clients) :
                 ready' = Spawn(Tail(ready),
                            [k \in 1..Len(ord) |-> CloseTask(ord[k])])
  /\ UNCHANGED <<connected_clients, chat_history, conn, inbox, pc, sends,
                 wire, now, keyError, arrivals, processed, exitCode>>

\* First step of client.close() (line 162): on a connection that is gone
\* it returns; otherwise it sends the close frame and waits for the
\* connection to end.
CloseRun(h) ==
  /\ Serving
  /\ ~Running
  /\ ready # <<>> /\ Head(ready) = CloseTask(h)
  /\ closing[h] = "new"
  /\ closing' = [closing EXCEPT ![h] = IF conn[h] = "open" THEN "sent" ELSE "done"]
  /\ ready' = WakeShutdown(Tail(ready), closing')
  /\ UNCHANGED <<connected_clients, chat_history, conn, inbox, pc, sends,
                 wire, now, keyError, arrivals, processed, phase, exitCode,
                 shut>>

\* The connection of h ends: a close that waits for it is woken.
Ended(h) ==
  /\ Serving
  /\ Lost(h)
  /\ closing' = [closing EXCEPT ![h] = IF @ = "sent" THEN "ended" ELSE @]
  /\ ready' = IF closing[h] = "sent"
                THEN Wake(LostWakes(h), CloseTask(h)) ELSE LostWakes(h)
  /\ UNCHANGED <<phase, exitCode, shut>>

\* client.close() returns once its connection has ended.
CloseReturn(h) ==
  /\ Serving
  /\ ~Running
  /\ ready # <<>> /\ Head(ready) = CloseTask(h)
  /\ closing[h] = "ended"
  /\ closing' = [closing EXCEPT ![h] = "done"]
  /\ ready' = WakeShutdown(Tail(ready), closing')
  /\ UNCHANGED <<connected_clients, chat_history, conn, inbox, pc, sends,
                 wire, now, keyError, arrivals, processed, phase, exitCode,
                 shut>>

\* Lines 166-167, the shutdown task once gather has returned: loop.stop().
ShutdownStop ==
  /\ Serving
  /\ ~Running
  /\ ready # <<>> /\ Head(ready) = ShutdownTask
  /\ shut = "gather"
  /\ shut' = "done"
  /\ phase' = "stopped"
  /\ ready' = Tail(ready)
  /\ UNCHANGED <<connected_clients, chat_history, conn, inbox, pc, sends,
                 wire, now, keyError, arrivals, processed, exitCode, closing>>

\* Lines 212-218 once the loop has stopped.
Exit ==
  /\ phase = "stopped"
  /\ phase' = "exited"
  /\ exitCode' = ExitStatus(AsyncioRun(FALSE))
  /\ UNCHANGED <<connected_clients, chat_history, conn, inbox, pc, ready,
                 sends, wire, now, keyError, arrivals, processed, shut,
                 closing>>

\* asyncio.run(main()) has just been called.
Launch == Idle({}) /\ phase = "starting" /\ Unsignalled

LifeNext ==
  \/ ServeUp
  \/ ServeFails
  \/ Signal
  \/ ShutdownRun
  \/ \E h \in Handles : CloseRun(h)
  \/ \E h \in Handles : Ended(h)
  \/ \E h \in Handles : CloseReturn(h)
  \/ ShutdownStop
  \/ Exit
  \/ \E h \in Handles : Serving /\ Accept(h)
  \/ \E h \in Handles : Serving /\ Start(h)
  \/ \E h \in Handles : Serving /\ Wait(h)
  \/ \E h \in Handles : Serving /\ Finish(h)

SpecLife == Launch /\ [][LifeNext]_vars

\* The steps the event loop takes by itself once the server is up; the
\* signal, the clients' connections and the end of a connection that is
\* being closed are in the hands of the environment.
LifeTaskStep ==
  \/ ShutdownRun
  \/ \E h \in Handles : CloseRun(h)
  \/ \E h \in Handles : CloseReturn(h)
  \/ ShutdownStop
  \/ Exit
  \/ \E h \in Handles : Serving /\ Start(h)
  \/ \E h \in Handles : Serving /\ Wait(h)
  \/ \E h \in Handles : Serving /\ Finish(h)

FairLife == SpecLife /\ WF_vars(LifeTaskStep)

\* ------------------------------------------------- the registry by itself
\* Lines 126-129 as an operation of their own: the removal of a handle,
\* applied to every registry over MaxRegistry handles and to every handle,
\* member or not.
MaxRegistry == 6

Registry == 1..MaxRegistry

Unregister(h) ==
  /\ connected_clients' = SetRemove(connected_clients, h).set
  /\ keyError' = (keyError \/ SetRemove(connected_clients, h).raised)
  /\ UNCHANGED <<chat_history, conn, inbox, pc, ready, sends, wire, now,
                 arrivals, processed>>
  /\ UNCHANGED life

RegistryInit == \E S \in SUBSET Registry : Boot(S)

RegistryNext == \E h \in Registry : Unregister(h)

RegistrySpec == RegistryInit /\ [][RegistryNext]_vars

\* ------------------------------------------------------------- long runs
\* Runs long enough to fill the history: the first connection sends
\* accepted payloads one at a time, further connections join at any moment
\* of the last LongTail arrivals (when the history is about to be or is
\* full), writes return at once and connected_clients is iterated in
\* ascending order.
LongArrivals == 101
LongTail == 3

Ascending(S) ==
  {f \in Orders(S) : \A i, j \in DOMAIN f : i < j => f[i] < f[j]}

LongNext ==
  \/ \E h \in Handles :
       /\ h = 1 \/ arrivals >= LongArrivals - LongTail
       /\ Accept(h)
  \/ Receive(1, Plain, LongArrivals, 1)
  \/ \E i \in DOMAIN sends : SendRun(i, {"ok"})
  \/ \E h \in Handles : Join(h, {"ok"})
  \/ \E h \in Handles :
       Process(h, Ascending(Recipients(connected_clients, h)))
  \/ \E h \in Handles : Wait(h)

SpecLong == Init /\ [][LongNext]_vars

\* ------------------------------------------------- accepted payloads
\* Runs in which every payload is accepted and the payloads differ in
\* their fields: the first connection sends them one at a time, other
\* connections join at any moment, writes return at once and
\* connected_clients is iterated in ascending order.
StampNext ==
  \/ \E h \in Handles : Accept(h)
  \/ \E p \in StampPayloads : Receive(1, p, MaxArrivals, 1)
  \/ \E i \in DOMAIN sends : SendRun(i, {"ok"})
  \/ \E h \in Handles : Join(h, {"ok"})
  \/ \E h \in Handles :
       Process(h, Ascending(Recipients(connected_clients, h)))
  \/ \E h \in Handles : Wait(h)

SpecStamp == Init /\ [][StampNext]_vars

\* ================================================================ claims
\* The number of live payloads for message number m in what was written
\* to one connection.
LiveCount(w, m) ==
  Cardinality({k \in DOMAIN w : w[k].type = "message" /\ w[k].message.id = m})

\* The send tasks of ss that carry message number m to client c.
TasksFor(ss, m, c) ==
  {i \in DOMAIN ss : ss[i].msg.id = m /\ ss[i].to = c}

\* ------------------------------------------------------------------- C1
\* The step that accepts a message creates, for every member of
\* connected_clients (the sender too) and for no one else, exactly one send
\* task carrying the message just appended, and queues it.
FanOutStep ==
  processed' = processed + 1 =>
    /\ \A c \in Handles :
         Cardinality(TasksFor(sends', processed', c)) =
           IF c \in connected_clients THEN 1 ELSE 0
    /\ \A i \in DOMAIN sends' :
         sends'[i].msg.id = processed' =>
           /\ sends'[i].msg = chat_history'[Len(chat_history')]
           /\ sends'[i].st = "new"
           /\ InQueue(ready', SendTask(i))

\* A send task stays queued until it runs, and once it has run on an open
\* connection its payload has been written there exactly once; no payload
\* is written without a task, and there is never a second task.
FanOutState ==
  /\ \A i \in DOMAIN sends :
       LET n == LiveCount(wire[sends[i].to], sends[i].msg.id) IN
         /\ sends[i].st = "new" => InQueue(ready, SendTask(i)) /\ n = 0
         /\ sends[i].st \in {"ok", "drain"} => n = 1
         /\ sends[i].st = "err" => n <= 1
         /\ \A k \in DOMAIN wire[sends[i].to] :
              (/\ wire[sends[i].to][k].type = "message"
               /\ wire[sends[i].to][k].message.id = sends[i].msg.id)
                => wire[sends[i].to][k] = LivePayload(sends[i].msg)
  /\ \A c \in Handles, m \in 1..processed :
       /\ Cardinality(TasksFor(sends, m, c)) <= 1
       /\ TasksFor(sends, m, c) = {} => LiveCount(wire[c], m) = 0

\* C1: fan-out completeness.  Every client registered when a message is
\* processed, the sender included, is sent the live payload of that message
\* exactly once: one send is created for it, the send is run, and it writes
\* the payload once (on a connection that is lost by then it raises).
FanOutCompleteness == [][FanOutStep]_vars /\ []FanOutState

\* Two clients were registered when a message was processed, one of them
\* its sender, and each has been written its live payload.
FanOutWitness ==
  \E i, j \in DOMAIN sends :
    /\ sends[i].msg.id = sends[j].msg.id
    /\ sends[i].to # sends[j].to
    /\ sends[i].owner = sends[i].to
    /\ sends[i].st = "ok" /\ sends[j].st = "ok"
    /\ LiveCount(wire[sends[i].to], sends[i].msg.id) = 1
    /\ LiveCount(wire[sends[j].to], sends[j].msg.id) = 1

\* ------------------------------------------------------------------- C2
\* The step in which handler h runs lines 54-72.
JoinStep(h) == pc[h] = "start" /\ pc'[h] # "start"

IsPrefix(u, v) == Len(u) <= Len(v) /\ SubSeq(v, 1, Len(u)) = u

\* A join on a non-empty history writes the whole buffer, in buffer order,
\* as the first payload of the connection, and reads nothing from it; what
\* was written to a connection stays, and everything written later is a
\* live payload.
HistoryFirstStep ==
  \A h \in Handles :
    /\ IsPrefix(wire[h], wire'[h])
    /\ JoinStep(h) =>
         /\ inbox'[h] = inbox[h]
         /\ sends' = sends
         /\ wire'[h] =
              IF chat_history # <<>> /\ conn[h] = "open"
                THEN <<[type |-> "history", messages |-> chat_history]>>
                ELSE <<>>
         /\ chat_history # <<>> /\ conn[h] # "open" => pc'[h] = "done"
    /\ ~JoinStep(h) =>
         \A k \in (Len(wire[h]) + 1)..Len(wire'[h]) :
           wire'[h][k].type = "message"

\* Nothing is written to a connection before its join, a history payload
\* is only ever the first payload of a connection, and a handler that has
\* not got past the history send has processed no inbound message.
HistoryFirstState ==
  \A h \in Handles :
    /\ pc[h] \in {"none", "start"} => wire[h] = <<>>
    /\ \A k \in DOMAIN wire[h] : wire[h][k].type = "history" => k = 1
    /\ pc[h] \in {"none", "start", "hist", "histOk", "histErr"} =>
         \A i \in DOMAIN sends : sends[i].owner # h

\* C2: history-first delivery.  A client that joins while the buffer holds
\* M1..Mk (k >= 1) is written exactly M1..Mk, in buffer order, as one
\* history payload, before any live payload and before any of its own
\* inbound messages is processed, whatever other connections broadcast
\* meanwhile.
HistoryFirst == [][HistoryFirstStep]_vars /\ []HistoryFirstState

\* A joiner still waits for its history send to return while the live
\* payload of a message broadcast by another connection has already been
\* written behind the history payload.
HistoryFirstWitness ==
  \E h \in Handles :
    /\ pc[h] = "hist"
    /\ Len(wire[h]) >= 2
    /\ wire[h][1].type = "history" /\ Len(wire[h][1].messages) >= 1
    /\ wire[h][2].type = "message"
    /\ \A k \in DOMAIN wire[h][1].messages :
         wire[h][1].messages[k].id < wire[h][2].message.id

\* ------------------------------------------------------------------- C5
\* A payload that does not parse, or parses to something without text or
\* without sender.
Bad(p) ==
  \/ p.kind # "object"
  \/ "text" \notin DOMAIN p.data
  \/ "sender" \notin DOMAIN p.data

\* The step in which handler h takes the next payload of its connection.
Consumes(h) ==
  /\ inbox[h] # <<>>
  /\ inbox'[h] = Tail(inbox[h])

\* Taking a bad payload changes nothing but the inbox: no send is created
\* or queued, nothing is written, the history and the registry stay, and
\* the handler is back at the top of its loop.  Taking a good one, after
\* any number of bad ones, appends it and creates a send per client.
IsolationStep ==
  \A h \in Handles :
    Consumes(h) =>
      IF Bad(Head(inbox[h]))
        THEN /\ chat_history' = chat_history
             /\ processed' = processed
             /\ sends' = sends
             /\ wire' = wire
             /\ ready' = ready \/ (ready # <<>> /\ ready' = Tail(ready))
             /\ conn' = conn
             /\ connected_clients' = connected_clients
             /\ h \in connected_clients'
             /\ pc'[h] = "loop"
        ELSE /\ processed' = processed + 1
             /\ chat_history'[Len(chat_history')].text = Head(inbox[h]).data.text
             /\ chat_history'[Len(chat_history')].sender =
                  Head(inbox[h]).data.sender
             /\ \A c \in connected_clients :
                  TasksFor(sends', processed', c) # {}

\* A handler at the top of its loop is registered, and with a good payload
\* at the head of its inbox its next step is the broadcast of that payload.
IsolationState ==
  \A h \in Handles :
    pc[h] = "loop" =>
      /\ h \in connected_clients
      /\ (inbox[h] # <<>> /\ ~Bad(Head(inbox[h]))) => ENABLED Broadcast(h)

\* C5: isolation of bad input.  A payload that fails to parse or lacks text
\* or sender causes no send and no change of history, leaves its
\* connection registered and active, and the next valid message of that
\* connection is processed and broadcast as usual.
BadInputIsolation == [][IsolationStep]_vars /\ []IsolationState

\* One connection sent a bad payload and then a good one: both are taken,
\* one message is in the history and its live payload has come back to the
\* sender, whose handler still waits in gather.
BadInputWitness ==
  \E h \in Handles :
    /\ arrivals = 2 /\ processed = 1
    /\ \A g \in Handles : g # h => conn[g] = "none"
    /\ inbox[h] = <<>>
    /\ pc[h] = "gather"
    /\ Len(chat_history) = 1
    /\ LiveCount(wire[h], 1) = 1

\* ------------------------------------------------------------------- C6
\* C6: delivery failure isolation.  When one send of a broadcast has
\* failed, every other send of that broadcast is still queued to run, or
\* has written its payload, or has failed because its own connection is
\* lost: a failure neither cancels nor skips the other sends.
FailureIsolation ==
  \A i, j \in DOMAIN sends :
    (i # j /\ sends[i].msg.id = sends[j].msg.id /\ sends[i].st = "err") =>
      \/ sends[j].st = "new" /\ InQueue(ready, SendTask(j))
      \/ /\ sends[j].st \in {"ok", "drain"}
         /\ LiveCount(wire[sends[j].to], sends[j].msg.id) = 1
      \/ sends[j].st = "err" /\ conn[sends[j].to] = "closed"

\* The first send of a broadcast failed without writing anything and a
\* later send of the same broadcast has delivered its payload.
FailureIsolationWitness ==
  \E i, j \in DOMAIN sends :
    /\ i < j
    /\ sends[i].msg.id = sends[j].msg.id
    /\ sends[i].st = "err"
    /\ LiveCount(wire[sends[i].to], sends[i].msg.id) = 0
    /\ sends[j].st = "ok"
    /\ LiveCount(wire[sends[j].to], sends[j].msg.id) = 1

\* ------------------------------------------------------------------- C7
\* The numbers of the live payloads written to one connection, in order.
Increasing(ids) ==
  \A k1, k2 \in DOMAIN ids : k1 < k2 => ids[k1] < ids[k2]

\* C7: broadcast order equals history order.  Messages stand in
\* chat_history in the order of their processing, and every connection is
\* written the live payloads in that same order.
BroadcastOrder ==
  /\ Increasing([k \in DOMAIN chat_history |-> chat_history[k].id])
  /\ \A c \in Handles :
       \A k1, k2 \in DOMAIN wire[c] :
         (/\ k1 < k2
          /\ wire[c][k1].type = "message"
          /\ wire[c][k2].type = "message")
           => wire[c][k1].message.id < wire[c][k2].message.id

\* Handler a still waits for the broadcast of m1 (one of its sends has not
\* returned) while connection c has been written m1 and then m2, a message
\* that another handler processed meanwhile.
BroadcastOrderWitness ==
  \E a, b, c \in Handles :
    /\ a # b
    /\ pc[a] = "gather" /\ ~InQueue(ready, HandlerTask(a))
    /\ \E i, j \in DOMAIN sends :
         /\ sends[i].owner = a /\ sends[i].msg.id = CurMsg(sends, a)
         /\ sends[j].owner = b /\ sends[j].msg.id > sends[i].msg.id
         /\ sends[i].to = c /\ sends[j].to = c
         /\ LiveCount(wire[c], sends[i].msg.id) = 1
         /\ LiveCount(wire[c], sends[j].msg.id) = 1

\* ------------------------------------------------------------------- C8
\* A handle is registered exactly while its handler stands between the
\* registration of line 58 and the end of the finally clause.
SpanState ==
  \A h \in Handles :
    h \in connected_clients <=>
      pc[h] \in {"loop", "hist", "histOk", "histErr", "recv", "gather"}

\* A send is run only on a handle that is registered at that moment.
AttemptStep ==
  \A i \in DOMAIN sends :
    (sends[i].st = "new" /\ sends'[i].st # "new") =>
      sends[i].to \in connected_clients

\* C8 as claimed: membership span, and no live send is ever attempted on
\* a handle outside its span, not even a send created inside it.
MembershipSpanClaimed == []SpanState /\ [][AttemptStep]_vars

\* A send is created only for a handle registered at that moment; a send
\* that runs after its handle was unregistered raises and writes nothing.
TargetStep ==
  /\ \A i \in (Len(sends) + 1)..Len(sends') :
       sends'[i].to \in connected_clients
  /\ \A i \in DOMAIN sends :
       (/\ sends[i].st = "new" /\ sends'[i].st # "new"
        /\ sends[i].to \notin connected_clients)
         => sends'[i].st = "err" /\ wire' = wire

\* C8 amended: membership span, and a live send is only ever created for a
\* handle inside its span; a send created inside the span may run after
\* the handler removed the handle, and then it fails without writing.
MembershipSpan == []SpanState /\ [][TargetStep]_vars

\* The next task to run is a send to a handle whose handler has already
\* unregistered it.
MembershipSpanWitness ==
  /\ ready # <<>>
  /\ \E i \in DOMAIN sends :
       /\ Head(ready) = SendTask(i)
       /\ sends[i].st = "new"
       /\ pc[sends[i].to] = "done"
       /\ sends[i].to \notin connected_clients

\* ------------------------------------------------------------------- C3
Min(a, b) == IF a <= b THEN a ELSE b

\* C3: history content.  After N accepted messages chat_history holds the
\* min(N, 100) most recently processed ones, oldest first: the messages
\* numbered N - min(N, 100) + 1 .. N in the order of their processing.
HistoryContent ==
  /\ Len(chat_history) = Min(processed, HistoryCap)
  /\ \A k \in DOMAIN chat_history :
       chat_history[k].id = processed - Len(chat_history) + k

\* 101 messages have been processed: the history holds #2..#101.
HistoryContentWitness ==
  /\ processed = HistoryCap + 1
  /\ Len(chat_history) = HistoryCap
  /\ chat_history[1].id = 2
  /\ chat_history[HistoryCap].id = HistoryCap + 1

\* ------------------------------------------------------------------- C4
\* C4: history length.  In every state a task can observe, chat_history
\* has at most 100 entries, and no history payload ever written carries
\* more than 100.
HistoryLength ==
  /\ Len(chat_history) <= HistoryCap
  /\ \A h \in Handles :
       \A k \in DOMAIN wire[h] :
         wire[h][k].type = "history" =>
           Len(wire[h][k].messages) <= HistoryCap

\* A client joined after the 101st message and was written a history
\* payload of exactly 100 entries.
HistoryLengthWitness ==
  /\ processed > HistoryCap
  /\ \E h \in Handles :
       /\ wire[h] # <<>>
       /\ wire[h][1].type = "history"
       /\ Len(wire[h][1].messages) = HistoryCap
       /\ wire[h][1].messages[1].id = 2

\* ------------------------------------------------------------------- C9
\* C9: guaranteed cleanup.  Once the transport of a connection is lost,
\* its handle is eventually removed from connected_clients, whatever its
\* handler was doing.
GuaranteedCleanup ==
  \A h \in Handles : (conn[h] = "closed") ~> (h \notin connected_clients)

\* A handler suspended in gather on a write to another, open connection
\* that does not return; its own transport is lost, nothing is left to run
\* and its handle is still registered.
CleanupStuckWitness ==
  \E h \in Handles :
    /\ conn[h] = "closed"
    /\ pc[h] = "gather"
    /\ h \in connected_clients
    /\ ready = <<>>
    /\ \E i \in DOMAIN sends :
         /\ sends[i].owner = h
         /\ sends[i].to # h
         /\ conn[sends[i].to] = "open"
         /\ sends[i].st = "drain"

OwnRemovalOnly == keyError = FALSE

\* ------------------------------------------------------------------ C11
\* A handler ends, and its handle leaves the registry, only in a step
\* taken while its own transport is lost; no step ends two handlers.
ContainmentStep ==
  /\ \A h \in Handles :
       (\/ h \in connected_clients /\ h \notin connected_clients'
        \/ pc[h] # "done" /\ pc'[h] = "done")
         => conn[h] = "closed" /\ conn'[h] = "closed"
  /\ \A g, h \in Handles :
       (/\ pc[g] # "done" /\ pc'[g] = "done"
        /\ pc[h] # "done" /\ pc'[h] = "done") => g = h

\* A handler whose transport is open and that has got past line 58 is
\* registered and alive, whatever became of the other connections and of
\* the sends of its broadcasts.
ContainmentState ==
  \A h \in Handles :
    (conn[h] = "open" /\ pc[h] \notin {"none", "start"}) =>
      h \in connected_clients /\ pc[h] # "done"

\* C11: per-connection failure containment.  A handler terminates and
\* unregisters only because of its own connection's disconnect or failure;
\* another client's disconnect, or a failed send to another client during
\* a broadcast this connection initiated, does neither.
FailureContainment == [][ContainmentStep]_vars /\ []ContainmentState

\* Handler h broadcast a message, the send to another client g failed
\* because g had disconnected, gather raised into h, and h went on to wait
\* for its next payload, registered, on its open connection.
FailureContainmentWitness ==
  \E g, h \in Handles :
    /\ g # h
    /\ conn[g] = "closed" /\ conn[h] = "open"
    /\ pc[h] = "recv" /\ ~InQueue(ready, HandlerTask(h))
    /\ h \in connected_clients
    /\ \E i \in DOMAIN sends :
         /\ sends[i].owner = h /\ sends[i].to = g
         /\ sends[i].msg.id = CurMsg(sends, h)
         /\ sends[i].st = "err"

\* ------------------------------------------------------------------ C12
\* The record m is the one chat_history holds, or held until the trim
\* dropped it, under m's number.
Stored(m) ==
  /\ m.id \in 1..processed
  /\ \A j \in DOMAIN chat_history :
       chat_history[j].id = m.id => chat_history[j] = m
  /\ m.id > processed - HistoryCap =>
       \E j \in DOMAIN chat_history : chat_history[j] = m

\* The record m is the one every history payload written so far carries
\* under m's number.
Replayed(m) ==
  \A d \in Handles :
    \A l \in DOMAIN wire[d] :
      wire[d][l].type = "history" =>
        \A n \in DOMAIN wire[d][l].messages :
          wire[d][l].messages[n].id = m.id => wire[d][l].messages[n] = m

\* C12: broadcast and history agree.  Whenever a live payload for a
\* message is issued (its send created, its frame written), the message
\* has been appended to chat_history, and the record the payload carries is
\* identical to the record stored there and to the one replayed to joiners
\* in history payloads.
BroadcastHistoryAgree ==
  /\ \A i \in DOMAIN sends : Stored(sends[i].msg) /\ Replayed(sends[i].msg)
  /\ \A c \in Handles :
       \A k \in DOMAIN wire[c] :
         wire[c][k].type = "message" =>
           Stored(wire[c][k].message) /\ Replayed(wire[c][k].message)

\* One client has been written the live payload of a message and a later
\* joiner the history payload that replays the same record.
BroadcastHistoryWitness ==
  \E c, d \in Handles :
    /\ c # d
    /\ \E k \in DOMAIN wire[c] :
         /\ wire[c][k].type = "message"
         /\ wire[d] # <<>>
         /\ wire[d][1].type = "history"
         /\ \E n \in DOMAIN wire[d][1].messages :
              wire[d][1].messages[n] = wire[c][k].message

\* ------------------------------------------------------------------ C13
\* The fields of a stored or broadcast record (id is the auxiliary number).
RecordFields == {"id", "text", "sender", "timestamp"}

\* The step that accepts a payload appends a record with the payload's
\* text and sender and a reading of the server clock taken in that step.
StampStep ==
  \A h \in Handles :
    (Consumes(h) /\ processed' = processed + 1) =>
      LET p == Head(inbox[h])
          m == chat_history'[Len(chat_history')]
      IN /\ DOMAIN m = RecordFields
         /\ m.text = p.data.text
         /\ m.sender = p.data.sender
         /\ m.timestamp = now' /\ now' > now
         /\ \A i \in (Len(sends) + 1)..Len(sends') : sends'[i].msg = m

\* Every record in the history or in a payload written has the four
\* fields only, and a timestamp the server clock has shown.
StampState ==
  /\ \A j \in DOMAIN chat_history :
       /\ DOMAIN chat_history[j] = RecordFields
       /\ chat_history[j].timestamp \in 1..now
  /\ \A c \in Handles :
       \A k \in DOMAIN wire[c] :
         IF wire[c][k].type = "message"
           THEN /\ DOMAIN wire[c][k].message = RecordFields
                /\ wire[c][k].message.timestamp \in 1..now
           ELSE \A n \in DOMAIN wire[c][k].messages :
                  /\ DOMAIN wire[c][k].messages[n] = RecordFields
                  /\ wire[c][k].messages[n].timestamp \in 1..now

\* C13: server-assigned timestamp.  For every accepted payload the record
\* appended and broadcast has the payload's text and sender and the server
\* clock's reading at the processing instant; a timestamp or any other
\* field the client supplied neither appears in the record nor changes it.
ServerTimestamp == [][StampStep]_vars /\ []StampState

\* A payload with a timestamp of the client's and one with a field of the
\* client's have been processed and broadcast with the server's stamps.
ServerTimestampWitness ==
  \E c \in Handles :
    \E k, l \in DOMAIN wire[c] :
      /\ k < l
      /\ wire[c][k].type = "message" /\ wire[c][l].type = "message"
      /\ wire[c][k].message.sender = "C"
      /\ wire[c][k].message.timestamp = 1
      /\ wire[c][l].message.sender = "B"
      /\ wire[c][l].message.text = "hi"
      /\ inbox = [h \in Handles |-> <<>>]
      /\ arrivals = 2

\* ------------------------------------------------------------------ C14
\* C14: graceful shutdown exit status.  A process that ends through the
\* shutdown path (signal, shutdown(), loop.stop(), asyncio.run) exits with
\* status 0, and a status other than 0 comes from a startup failure only.
GracefulExitStatus ==
  /\ (phase = "exited" /\ shut = "done") => exitCode = 0
  /\ (phase = "exited" /\ exitCode # 0) => shut = "none"

\* The server was signalled while a client was connected, closed it,
\* stopped the loop and the process has exited with status 1.
ShutdownExitWitness ==
  /\ phase = "exited"
  /\ shut = "done"
  /\ exitCode = 1
  /\ \E h \in Handles : closing[h] = "done"

ShutdownClosesAll ==
  phase = "stopped" =>
    \A h \in connected_clients : closing[h] # "none"

\* The loop has been stopped after the close of one handle, while another
\* handle that registered during the wait is open and was never closed.
LateJoinerWitness ==
  /\ phase = "stopped"
  /\ \E g, h \in Handles :
       /\ closing[g] = "done"
       /\ h \in connected_clients
       /\ conn[h] = "open"
       /\ closing[h] = "none"

\* Close is issued on every handle that was registered when shutdown()
\* first ran.
ShutdownClosesSnapshot ==
  [][shut = "queued" /\ shut' # "queued" =>
       \A h \in connected_clients : closing'[h] = "new"]_vars

\* ------------------------------------------------------------------ C17
\* The clients for which a send of message number m exists.
SentTo(ss, m) == {c \in Handles : TasksFor(ss, m, c) # {}}

\* The step that appends a message leaves the registry as it is and
\* creates the sends for exactly its members; no later step, a join or a
\* disconnect included, adds or removes a recipient of an earlier message.
RecipientStep ==
  /\ processed' = processed + 1 =>
       /\ connected_clients' = connected_clients
       /\ chat_history'[Len(chat_history')].id = processed'
       /\ SentTo(sends', processed') = connected_clients
       /\ Len(sends') = Len(sends) + Cardinality(connected_clients)
  /\ \A m \in 1..processed : SentTo(sends', m) = SentTo(sends, m)
  /\ processed' = processed => Len(sends') = Len(sends)

\* C17: stable recipient set.  The recipients of the broadcast of a message
\* are exactly the members of connected_clients at the instant the message
\* was appended; a client that joins or disconnects while the sends are
\* pending neither changes that set nor aborts the enumeration.
StableRecipients == [][RecipientStep]_vars

\* A broadcast still has a send pending while the registry has changed
\* since its message was appended: a recipient has left, or a client that
\* is no recipient has joined.
StableRecipientsWitness ==
  \E i \in DOMAIN sends :
    /\ sends[i].st \in {"new", "drain"}
    /\ SentTo(sends, sends[i].msg.id) # connected_clients
    /\ SentTo(sends, sends[i].msg.id) # {}
    /\ connected_clients # {}

\* ------------------------------------------------------------------ C18
\* The number of history payloads among what was written to a connection.
HistoryCount(w) == Cardinality({k \in DOMAIN w : w[k].type = "history"})

\* A step writes a history payload only to the handle that joins in that
\* step, as the first payload of its connection and to no other
\* connection; a join on an empty history writes nothing at all.
ScopeStep ==
  \A h \in Handles :
    /\ HistoryCount(wire'[h]) > HistoryCount(wire[h]) =>
         /\ JoinStep(h)
         /\ wire[h] = <<>>
         /\ Len(wire'[h]) = 1
         /\ chat_history # <<>>
         /\ \A g \in Handles : g # h => wire'[g] = wire[g]
    /\ (JoinStep(h) /\ chat_history = <<>>) => wire' = wire

\* A connection has been written at most one history payload, as its
\* first payload and never an empty one.
ScopeState ==
  \A h \in Handles :
    /\ HistoryCount(wire[h]) <= 1
    /\ \A k \in DOMAIN wire[h] :
         wire[h][k].type = "history" =>
           k = 1 /\ wire[h][k].messages # <<>>

\* C18: history payload scope.  A join sends a history payload to the
\* joining handle only; a connection is sent at most one history payload
\* in its lifetime, always as its first payload; a client that joins while
\* chat_history is empty is sent none.
HistoryScope == [][ScopeStep]_vars /\ []ScopeState

\* One client joined on an empty history and has been written live
\* payloads only; another joined later and has been written one history
\* payload followed by a live payload.
HistoryScopeWitness ==
  \E g, h \in Handles :
    /\ g # h
    /\ Len(wire[g]) >= 2 /\ HistoryCount(wire[g]) = 0
    /\ Len(wire[h]) >= 2 /\ HistoryCount(wire[h]) = 1
    /\ wire[h][2].type = "message"

\* ------------------------------------------------------------------ C19
\* Message number m is in the history payload written to connection c.
InHistoryPayload(c, m) ==
  /\ wire[c] # <<>>
  /\ wire[c][1].type = "history"
  /\ \E n \in DOMAIN wire[c][1].messages : wire[c][1].messages[n].id = m

\* Message number m has reached c, or is on its way to c, as a live
\* payload: one send exists for it, queued, or run with its one payload
\* written.
OnLiveChannel(c, m) ==
  /\ Cardinality(TasksFor(sends, m, c)) = 1
  /\ \A i \in TasksFor(sends, m, c) :
       IF sends[i].st = "new"
         THEN InQueue(ready, SendTask(i)) /\ LiveCount(wire[c], m) = 0
         ELSE sends[i].st \in {"ok", "drain"} /\ LiveCount(wire[c], m) = 1

\* Nothing of message number m has been or will be sent live to c.
OffLiveChannel(c, m) ==
  TasksFor(sends, m, c) = {} /\ LiveCount(wire[c], m) = 0

\* C19: no gap and no duplicate across the join.  For a client that has
\* joined on a connection that has stayed open since, every message
\* processed so far (none trimmed from the history yet) reaches it through
\* exactly one channel: its history payload, or a live payload; never
\* both and never neither.
NoGapNoDuplicate ==
  processed <= HistoryCap =>
    \A c \in Handles :
      (conn[c] = "open" /\ pc[c] \notin {"none", "start"}) =>
        \A m \in 1..processed :
          \/ InHistoryPayload(c, m) /\ OffLiveChannel(c, m)
          \/ ~InHistoryPayload(c, m) /\ OnLiveChannel(c, m)

\* Client c joined while the broadcast of a message was in flight (the
\* message appended, a send of it to another client not yet run): the
\* message is in c's history payload and no live send of it exists for c.
NoGapNoDuplicateWitness ==
  \E c \in Handles :
    \E i \in DOMAIN sends :
      /\ conn[c] = "open"
      /\ sends[i].st = "new"
      /\ sends[i].to # c
      /\ InHistoryPayload(c, sends[i].msg.id)
      /\ OffLiveChannel(c, sends[i].msg.id)

\* ------------------------------------------------------------------ C20
\* Handler h is suspended in gather, one send of its broadcast waiting on
\* a recipient whose write does not return.
Stalled(h) ==
  /\ pc[h] = "gather"
  /\ ~InQueue(ready, HandlerTask(h))
  /\ \E i \in DOMAIN sends :
       /\ sends[i].owner = h
       /\ sends[i].msg.id = CurMsg(sends, h)
       /\ sends[i].st = "drain"

\* While h is stalled its message is in the history, every other send of
\* the broadcast is queued, has written its payload, or has failed on its
\* own lost connection, and any other handler that has a payload is queued
\* to run and, once the event loop takes it from the head of the queue
\* with an accepted payload, can append and broadcast it.
StallState ==
  \A h \in Handles :
    Stalled(h) =>
      /\ CurMsg(sends, h) > processed - HistoryCap =>
           \E j \in DOMAIN chat_history : chat_history[j].id = CurMsg(sends, h)
      /\ \A j \in DOMAIN sends :
           sends[j].msg.id = CurMsg(sends, h) =>
             \/ sends[j].st = "new" /\ InQueue(ready, SendTask(j))
             \/ /\ sends[j].st \in {"ok", "drain"}
                /\ LiveCount(wire[sends[j].to], sends[j].msg.id) = 1
             \/ sends[j].st = "err" /\ conn[sends[j].to] = "closed"
      /\ \A g \in Handles :
           g # h =>
             /\ (pc[g] = "recv" /\ inbox[g] # <<>>) =>
                  InQueue(ready, HandlerTask(g))
             /\ (/\ pc[g] \in {"recv", "histOk", "gather"}
                 /\ ~Running
                 /\ ready # <<>> /\ Head(ready) = HandlerTask(g)
                 /\ inbox[g] # <<>> /\ ~Bad(Head(inbox[g])))
                  => ENABLED Broadcast(g)

\* A stalled handler takes nothing from its inbox and creates no send;
\* payloads that arrive for it are kept.
StallStep ==
  \A h \in Handles :
    Stalled(h) =>
      /\ IsPrefix(inbox[h], inbox'[h])
      /\ \A i \in (Len(sends) + 1)..Len(sends') : sends'[i].owner # h

\* C20: stalled recipient containment.  While a handler is suspended in
\* gather because one recipient's send does not complete, its message is
\* in chat_history and is delivered to every other recipient, every other
\* handler can still accept, append and broadcast its next message, and
\* only the suspended handler's own later payloads are held back.
StallContainment == []StallState /\ [][StallStep]_vars

\* Handler h is stalled on the send to g; its message has come back to h
\* itself; g's handler has since processed a later message, whose live
\* payload h's connection has been written; a payload of h waits unread.
StallContainmentWitness ==
  \E g, h \in Handles :
    /\ g # h
    /\ Stalled(h)
    /\ LiveCount(wire[h], CurMsg(sends, h)) = 1
    /\ inbox[h] # <<>>
    /\ \E j \in DOMAIN sends :
         /\ sends[j].owner = g
         /\ sends[j].msg.id > CurMsg(sends, h)
         /\ sends[j].to = h
         /\ sends[j].st = "ok"
         /\ LiveCount(wire[h], sends[j].msg.id) = 1

====
